---- MODULE Spec2Model ----
(***************************************************************************)
(* Intervia: the voice-call controller (components/Agent.tsx), the         *)
(* feedback generator and the interview repository                        *)
(* (lib/actions/general.action.ts), the feedback schema                   *)
(* (constants/index.ts), the interview generation endpoint                *)
(* (app/api/vapi/generate/route.ts), and the sign-up / sign-in form       *)
(* (AuthForm) with its server actions signUp and signIn.                  *)
(*                                                                         *)
(* The Agent component is a React function component.  Its state is the    *)
(* three useState cells; every handler runs to completion and the commit   *)
(* that follows it runs the post-call useEffect when one of its            *)
(* dependencies (messages, callStatus) changed.  One action of this module *)
(* is one handler together with that commit.  The voice client `vapi` is a *)
(* module-level singleton whose session is not owned by the component, so  *)
(* the events it emits are inputs: any event may arrive while the          *)
(* listeners are registered.                                               *)
(***************************************************************************)
EXTENDS Integers, Sequences, FiniteSets, TLC

(* ------------------------------ bounds --------------------------------- *)

\* final transcript events delivered to one controller instance
MaxMsgs == 1
\* vapi.start promises pending at once in one controller instance
MaxStarts == 1
\* runs of the post-call effect's FINISHED branch in one controller instance
MaxEffects == 2
\* documents in the feedback collection when it is driven directly
MaxFeedback == 2
\* logical clock values used for createdAt
MaxTime == 1
\* documents of a small interviews collection
MaxInterviews == 2
\* signUp calls made
MaxSignUps == 2
\* submissions of the sign-up / sign-in form
MaxSubmits == 2
\* controller instances mounted one after the other
MaxMounts == 2

(* --------------------------- program constants ------------------------- *)

\* getLatestInterviews: const { userId, limit = 20 } = params
DefaultLimit == 20

\* props the two pages give the Agent
interviewId == "i1"
userId == "u1"

HomeRoute == "/"
FeedbackRoute == "/interview/i1/feedback"

\* enum CallStatus
CallStatus == {"INACTIVE", "CONNECTING", "ACTIVE", "FINISHED"}

\* the five literal names of feedbackSchema.categoryScores, in tuple order
CategoryNames ==
  << "Communication Skills", "Technical Knowledge", "Problem Solving",
     "Cultural Fit", "Confidence and Clarity" >>

(* ------------------------- voice-service messages ---------------------- *)

\* type Message = TranscriptMessage | FunctionCallMessage | FunctionCallResultMessage
\* (fields a variant does not have are "none")
Message ==
  { [type |-> "transcript", transcriptType |-> "final",
     role |-> "user", transcript |-> "answer"],
    [type |-> "transcript", transcriptType |-> "final",
     role |-> "assistant", transcript |-> "question"],
    [type |-> "transcript", transcriptType |-> "partial",
     role |-> "user", transcript |-> "ans"],
    [type |-> "function-call", transcriptType |-> "none",
     role |-> "none", transcript |-> "none"],
    [type |-> "function-call-result", transcriptType |-> "none",
     role |-> "none", transcript |-> "none"] }

\* error events: error.message as the sequence of its parts (<<>>: the error
\* has no message)
ErrorMessages ==
  { <<"Error: ", "Meeting ended due to ejection", " by host">>,
    <<"network">>,
    <<>> }

\* String.prototype.includes
includes(s, part) == \E i \in DOMAIN s : s[i] = part

VARIABLES
  type,           \* prop: "generate" | "interview"
  mounted,        \* the Agent component is mounted
  instance,       \* which controller instance was mounted last (1, 2, ..)
  listeners,      \* the listeners the shared vapi client holds
  callStatus,     \* useState<CallStatus>
  isSpeaking,     \* useState(false)
  messages,       \* useState<SavedMessage[]>
  startPending,   \* vapi.start promises not yet settled
  calls,          \* createFeedback invocations of handleGenerateFeedback
  feedback,       \* the 'feedback' collection, in insertion order
  navs,           \* router.push calls, in order
  now,            \* server clock (createdAt)
  finals,         \* history: final transcript events delivered since mount
  callFinals,     \* history: final transcript events since the last start
  finishedCount,  \* history: times callStatus entered FINISHED
  ev,             \* history: what the last step was, where a claim asks
  interviews,     \* the 'interviews' collection
  readQuery,      \* the last direct server-action call's parameters
  readResult,     \* the last direct server-action call's outcome
  users,          \* the 'users' collection: uid -> document
  signUps,        \* signUp calls: where each is and what it returned
  accounts,       \* identity provider (Firebase Auth): uid -> email
  session,        \* the 'session' cookie
  form,           \* AuthForm: the running onSubmit and what it was given
  toast,          \* the toasts shown by the last step of the form
  submits         \* history: submissions of the form so far

agentVars == <<type, mounted, instance, listeners, callStatus, isSpeaking,
               messages, startPending, finals, callFinals, finishedCount>>
serverVars == <<feedback, now>>
formVars == <<accounts, session, form, toast, submits>>
authVars == <<users, signUps, formVars>>
repoVars == <<interviews, readQuery, readResult, users, signUps, formVars>>
vars == <<type, mounted, instance, listeners, callStatus, isSpeaking,
          messages, startPending, calls, feedback, navs, now, finals, callFinals,
          finishedCount, ev, interviews, readQuery, readResult,
          users, signUps, accounts, session, form, toast, submits>>

(* ------------------------------ helpers -------------------------------- *)

IsPrefix(s, t) == Len(s) <= Len(t) /\ SubSeq(t, 1, Len(s)) = s

\* parameters of a server action (a field it does not take is "none" / 0)
NoQuery ==
  [op |-> "none", userId |-> "none", interviewId |-> "none", docId |-> 0,
   hasLimit |-> FALSE, limit |-> 0]

\* outcomes of a server action: it returns null, it returns documents, it
\* returns {success, feedbackId}, or its promise rejects (threw)
NoResult ==
  [null |-> TRUE, threw |-> FALSE, docs |-> <<>>, success |-> FALSE,
   feedbackId |-> 0]
Returned(docs) == [NoResult EXCEPT !.null = FALSE, !.docs = docs]
Thrown == [NoResult EXCEPT !.null = FALSE, !.threw = TRUE]

\* One createFeedback invocation of handleGenerateFeedback:
\*   "pending"   the request, carrying the transcript, is on its way
\*   "returned"  the server action's return value {success, feedbackId} is
\*               on its way back (feedbackId 0: undefined)
\*   "done"      handleGenerateFeedback has finished
NewCall(transcript) ==
  [status |-> "pending", transcript |-> transcript, success |-> FALSE,
   feedbackId |-> 0]

Answer(status, success, feedbackId) ==
  [status |-> status, transcript |-> <<>>, success |-> success,
   feedbackId |-> feedbackId]

(* ---------------------- Agent.tsx: event handlers ---------------------- *)

\* the events of the shared voice client the Agent listens to
VapiEvents ==
  {"call-start", "call-end", "message", "speech-start", "speech-end", "error"}

\* the first useEffect: vapi.on(event, handler) for the six handlers of the
\* instance being mounted
on(set, inst) == set \cup {<<inst, e>> : e \in VapiEvents}

\* an event reaches a handler of the mounted instance (a handler of an
\* instance that is gone sets the state of an unmounted component: nothing
\* happens)
Hears(e) == mounted /\ <<instance, e>> \in listeners

\* const onCallStart = () => setCallStatus(CallStatus.ACTIVE)
onCallStart(status) == "ACTIVE"

\* const onCallEnd = () => setCallStatus(CallStatus.FINISHED)
onCallEnd(status) == "FINISHED"

\* onMessage that loses the update for what the assistant said
onMessage_dropsAssistant(prev, message) ==
  IF /\ message.type = "transcript"
     /\ message.transcriptType = "final"
     /\ message.role = "user"
  THEN Append(prev, [role |-> message.role, content |-> message.transcript])
  ELSE prev

\* onMessage without the transcriptType test: interim results are kept too
onMessage_keepsPartials(prev, message) ==
  IF message.type = "transcript"
  THEN Append(prev, [role |-> message.role, content |-> message.transcript])
  ELSE prev

\* onMessage: setMessages((prev) => [...prev, newMessage]) for final transcripts
onMessage(prev, message) ==
  IF message.type = "transcript" /\ message.transcriptType = "final"
  THEN Append(prev, [role |-> message.role, content |-> message.transcript])
  ELSE prev

\* a speech-start handler that does not set the indicator
onSpeechStart_keeps(speaking) == speaking

onSpeechStart(speaking) == TRUE
onSpeechEnd(speaking) == FALSE

\* a catch block that ends the call instead of resetting it
handleCallCatch_finishes(status) == "FINISHED"

\* handleCall's catch: setCallStatus(CallStatus.INACTIVE)
handleCallCatch(status) == "INACTIVE"

\* a post-call effect that does not look at the mode
useEffectPostCall_ignoresType(status, msgs, depsChanged) ==
  IF depsChanged /\ status = "FINISHED"
  THEN /\ calls' = Append(calls, NewCall(msgs))
       /\ navs' = navs
  ELSE /\ navs' = navs
       /\ calls' = calls

\* The post-call useEffect, deps [messages, callStatus, type, userId]: it runs
\* after a commit in which a dependency changed, with the committed values.
\* In interview mode it runs handleGenerateFeedback up to its await.
useEffectPostCall(status, msgs, depsChanged) ==
  IF depsChanged /\ status = "FINISHED"
  THEN IF type = "generate"
       THEN /\ navs' = Append(navs, HomeRoute)
            /\ calls' = calls
       ELSE /\ calls' = Append(calls, NewCall(msgs))
            /\ navs' = navs
  ELSE /\ navs' = navs
       /\ calls' = calls

\* room in the history logs for one more run of the effect
EffectRoom ==
  IF type = "generate" THEN Len(navs) < MaxEffects ELSE Len(calls) < MaxEffects

\* One commit: the three state cells take their new values and the post-call
\* effect runs if messages or callStatus changed (setState to an equal value
\* bails out; setMessages always builds a new array).
Commit(status, msgs, speaking) ==
  LET depsChanged == status # callStatus \/ msgs # messages IN
  /\ (depsChanged /\ status = "FINISHED") => EffectRoom
  /\ callStatus' = status
  /\ messages' = msgs
  /\ isSpeaking' = speaking
  /\ finishedCount' = IF status = "FINISHED" /\ callStatus # "FINISHED"
                      THEN finishedCount + 1 ELSE finishedCount
  /\ useEffectPostCall(status, msgs, depsChanged)

(* ------------------------ Agent.tsx: user actions ---------------------- *)

\* the call button is rendered when callStatus !== "ACTIVE" and disabled when
\* callStatus === 'CONNECTING'
handleCall ==
  /\ mounted
  /\ callStatus \notin {"ACTIVE", "CONNECTING"}
  /\ startPending < MaxStarts
  /\ Commit("CONNECTING", messages, isSpeaking)
  /\ startPending' = startPending + 1
  /\ callFinals' = IF callStatus = "FINISHED" THEN <<>> ELSE callFinals
  /\ ev' = "start"
  /\ UNCHANGED <<type, mounted, instance, listeners, finals, serverVars, repoVars>>

\* await vapi.start(...) resolves
StartResolved ==
  /\ startPending > 0
  /\ startPending' = startPending - 1
  /\ ev' = "-"
  /\ UNCHANGED <<type, mounted, instance, listeners, callStatus, isSpeaking, messages,
                 calls, navs, finals, callFinals, finishedCount,
                 serverVars, repoVars>>

\* await vapi.start(...) throws: the catch block (a state update of an
\* unmounted component is dropped)
StartRejected ==
  /\ startPending > 0
  /\ startPending' = startPending - 1
  /\ IF mounted
     THEN Commit(handleCallCatch(callStatus), messages, isSpeaking)
     ELSE UNCHANGED <<callStatus, messages, isSpeaking, finishedCount,
                      navs, calls>>
  /\ ev' = "start-failed"
  /\ UNCHANGED <<type, mounted, instance, listeners, finals, callFinals,
                 serverVars, repoVars>>

\* the End Interview button is rendered only when callStatus === "ACTIVE"
handleDisconnect ==
  /\ mounted
  /\ callStatus = "ACTIVE"
  /\ Commit("FINISHED", messages, isSpeaking)
  /\ ev' = "-"
  /\ UNCHANGED <<type, mounted, instance, listeners, startPending, finals, callFinals,
                 serverVars, repoVars>>

(* --------------------- Agent.tsx: voice-service events ----------------- *)

CallStartEvent ==
  /\ Hears("call-start")
  /\ Commit(onCallStart(callStatus), messages, isSpeaking)
  /\ ev' = "-"
  /\ UNCHANGED <<type, mounted, instance, listeners, startPending, finals, callFinals,
                 serverVars, repoVars>>

CallEndEvent ==
  /\ Hears("call-end")
  /\ Commit(onCallEnd(callStatus), messages, isSpeaking)
  /\ ev' = "-"
  /\ UNCHANGED <<type, mounted, instance, listeners, startPending, finals, callFinals,
                 serverVars, repoVars>>

MessageEvent(m) ==
  LET final == m.type = "transcript" /\ m.transcriptType = "final"
      said == [role |-> m.role, content |-> m.transcript]
  IN
  /\ Hears("message")
  /\ final => Len(finals) < MaxMsgs
  /\ Commit(callStatus, onMessage(messages, m), isSpeaking)
  /\ finals' = IF final THEN Append(finals, said) ELSE finals
  /\ callFinals' = IF final THEN Append(callFinals, said) ELSE callFinals
  /\ ev' = "-"
  /\ UNCHANGED <<type, mounted, instance, listeners, startPending, serverVars, repoVars>>

SpeechStartEvent ==
  /\ Hears("speech-start")
  /\ Commit(callStatus, messages, onSpeechStart(isSpeaking))
  /\ ev' = "-"
  /\ UNCHANGED <<type, mounted, instance, listeners, startPending, finals, callFinals,
                 serverVars, repoVars>>

SpeechEndEvent ==
  /\ Hears("speech-end")
  /\ Commit(callStatus, messages, onSpeechEnd(isSpeaking))
  /\ ev' = "-"
  /\ UNCHANGED <<type, mounted, instance, listeners, startPending, finals, callFinals,
                 serverVars, repoVars>>

\* an onError that logs every error
onError_logsAll(msg) == TRUE

\* onError: whether console.log('Error', error) is called
\* if (!error.message?.includes('Meeting ended due to ejection'))
onError(msg) == ~includes(msg, "Meeting ended due to ejection")

\* onError only logs (or not): no state cell is written, and the console is
\* not part of the state
ErrorEvent(msg) ==
  /\ Hears("error")
  /\ onError(msg) \in BOOLEAN
  /\ ev' = "-"
  /\ UNCHANGED <<agentVars, calls, navs, serverVars, repoVars>>

\* a cleanup that does not remove the message listener
off_keepsMessage(set, inst) ==
  set \ {<<inst, e>> : e \in VapiEvents \ {"message"}}

\* the cleanup of the first useEffect: vapi.off(event, handler) for the six
\* handlers of this instance
off(set, inst) == set \ {<<inst, e>> : e \in VapiEvents}

Unmount ==
  /\ mounted
  /\ mounted' = FALSE
  /\ listeners' = off(listeners, instance)
  /\ ev' = "-"
  /\ UNCHANGED <<type, instance, callStatus, isSpeaking, messages,
                 startPending, finals, callFinals, finishedCount, calls, navs,
                 serverVars, repoVars>>

\* The page renders a new Agent after the previous one was unmounted: its
\* state cells start from their initial values and its first useEffect
\* registers its handlers. Promises of the previous instance settle into an
\* unmounted component. (The histories are those of the new instance.)
Mount ==
  /\ ~mounted
  /\ instance < MaxMounts
  /\ mounted' = TRUE
  /\ instance' = instance + 1
  /\ listeners' = on(listeners, instance + 1)
  /\ callStatus' = "INACTIVE"
  /\ isSpeaking' = FALSE
  /\ messages' = <<>>
  /\ startPending' = 0
  /\ finals' = <<>>
  /\ callFinals' = <<>>
  /\ finishedCount' = 0
  /\ ev' = "mount"
  /\ UNCHANGED <<type, calls, navs, serverVars, repoVars>>

(* --------------- constants/index.ts: feedbackSchema -------------------- *)

Cat(name, score) == [name |-> name, score |-> score, comment |-> "c"]

Five(score) ==
  [i \in 1..5 |-> Cat(CategoryNames[i], score)]

Obj(total, cats) ==
  [totalScore |-> total, categoryScores |-> cats, strengths |-> <<"s">>,
   areasForImprovement |-> <<"a">>, finalAssessment |-> "f"]

\* structured objects the language model may return, by key
LLMKeys ==
  {"good", "zero", "totalHigh", "catNegative", "four", "six", "swapped",
   "renamed"}

LLMObject(k) ==
  CASE k = "good" -> Obj(80, Five(70))
    [] k = "zero" -> Obj(0, Five(0))
    [] k = "totalHigh" -> Obj(150, Five(70))
    [] k = "catNegative" -> Obj(80, [Five(70) EXCEPT ![2].score = -5])
    [] k = "four" -> Obj(80, SubSeq(Five(70), 1, 4))
    [] k = "six" -> Obj(80, Five(70) \o <<Cat("Leadership", 50)>>)
    [] k = "swapped" ->
         Obj(80, [Five(70) EXCEPT ![1] = Cat(CategoryNames[2], 70),
                                  ![2] = Cat(CategoryNames[1], 70)])
    [] OTHER -> Obj(80, [Five(70) EXCEPT ![3].name = "Problem-Solving"])

\* z.object({ totalScore: z.number(), categoryScores: z.tuple([...five
\* z.object({name: z.literal(..), score: z.number(), comment: z.string()})]), ..})
feedbackSchema(o) ==
  /\ o.totalScore \in Int
  /\ Len(o.categoryScores) = Len(CategoryNames)
  /\ \A i \in 1..Len(CategoryNames) :
       /\ o.categoryScores[i].name = CategoryNames[i]
       /\ o.categoryScores[i].score \in Int

(* ------------- general.action.ts: createFeedback (server) -------------- *)

\* generateObject({model, schema: feedbackSchema, prompt, system}): throws
\* when the model call throws or the object does not match the schema
generateObject(llm) ==
  IF llm = "throws" THEN [ok |-> FALSE, object |-> Obj(0, <<>>)]
  ELSE [ok |-> feedbackSchema(LLMObject(llm)), object |-> LLMObject(llm)]

\* new Date().toISOString(): a fixed-width string of digits, most significant
\* first (the clock's value written with two digits)
toISOString(t) == << t \div 10, t % 10 >>

\* a document id that is not generated afresh: that of the first document
NewFeedbackId_reused == IF feedback = <<>> THEN Len(feedback) + 1 ELSE feedback[1].id

\* db.collection('feedback').add({...}): a fresh document id
NewFeedbackId == Len(feedback) + 1

\* createFeedback that saves a document before the model has answered
createFeedback_savesFirst(params, llm, insertOk, t) ==
  LET g == generateObject(llm) IN
  [added |-> << [id |-> NewFeedbackId,
                 interviewId |-> params.interviewId,
                 userId |-> params.userId,
                 totalScore |-> g.object.totalScore,
                 categoryScores |-> g.object.categoryScores,
                 strengths |-> g.object.strengths,
                 areasForImprovement |-> g.object.areasForImprovement,
                 finalAssessment |-> g.object.finalAssessment,
                 createdAt |-> toISOString(t)] >>,
   success |-> g.ok /\ insertOk,
   feedbackId |-> IF g.ok /\ insertOk THEN NewFeedbackId ELSE 0,
   threw |-> FALSE]

\* createFeedback without its try/catch: a failure rejects the promise
createFeedback_noCatch(params, llm, insertOk, t) ==
  LET g == generateObject(llm) IN
  IF ~g.ok \/ ~insertOk
  THEN [added |-> <<>>, success |-> FALSE, feedbackId |-> 0, threw |-> TRUE]
  ELSE [added |-> << [id |-> NewFeedbackId,
                      interviewId |-> params.interviewId,
                      userId |-> params.userId,
                      totalScore |-> g.object.totalScore,
                      categoryScores |-> g.object.categoryScores,
                      strengths |-> g.object.strengths,
                      areasForImprovement |-> g.object.areasForImprovement,
                      finalAssessment |-> g.object.finalAssessment,
                      createdAt |-> toISOString(t)] >>,
        success |-> TRUE, feedbackId |-> NewFeedbackId, threw |-> FALSE]

\* createFeedback(params): the documents it adds and the value it returns
createFeedback(params, llm, insertOk, t) ==
  LET g == generateObject(llm) IN
  IF ~g.ok \/ ~insertOk
  THEN [added |-> <<>>, success |-> FALSE, feedbackId |-> 0, threw |-> FALSE]
  ELSE [added |-> << [id |-> NewFeedbackId,
                      interviewId |-> params.interviewId,
                      userId |-> params.userId,
                      totalScore |-> g.object.totalScore,
                      categoryScores |-> g.object.categoryScores,
                      strengths |-> g.object.strengths,
                      areasForImprovement |-> g.object.areasForImprovement,
                      finalAssessment |-> g.object.finalAssessment,
                      createdAt |-> toISOString(t)] >>,
        success |-> TRUE, feedbackId |-> NewFeedbackId, threw |-> FALSE]

\* The server action runs for invocation i.
CreateFeedbackServer(i, llm, insertOk) ==
  LET r == createFeedback([interviewId |-> interviewId, userId |-> userId,
                           transcript |-> calls[i].transcript],
                          llm, insertOk, now)
  IN
  /\ calls[i].status = "pending"
  /\ feedback' = feedback \o r.added
  /\ calls' = [calls EXCEPT ![i] = Answer("returned", r.success, r.feedbackId)]
  /\ ev' = IF llm = "throws" THEN "model-throws" ELSE "-"
  /\ UNCHANGED <<agentVars, navs, now, repoVars>>

(* --------- Agent.tsx: handleGenerateFeedback after its await ----------- *)

\* a handleGenerateFeedback that goes to the feedback view whatever came back
handleGenerateFeedback_always(call) == FeedbackRoute

\* const { success, feedbackId: id } = await createFeedback(...)
\* if (success && id) router.push(`/interview/${interviewId}/feedback`)
\* else router.push('/')
handleGenerateFeedback(call) ==
  IF call.success /\ call.feedbackId # 0 THEN FeedbackRoute ELSE HomeRoute

\* catch (error) { router.push('/') }
handleGenerateFeedbackCatch(call) == HomeRoute

\* a continuation that finishes without calling router.push
FeedbackResume_noPush(i) ==
  /\ calls[i].status = "returned"
  /\ navs' = navs
  /\ calls' = [calls EXCEPT ![i] = Answer("done", FALSE, 0)]
  /\ ev' = "-"
  /\ UNCHANGED <<agentVars, serverVars, repoVars>>

\* the awaited promise resolves with the server action's return value
FeedbackResume(i) ==
  /\ calls[i].status = "returned"
  /\ navs' = Append(navs, handleGenerateFeedback(calls[i]))
  /\ calls' = [calls EXCEPT ![i] = Answer("done", FALSE, 0)]
  /\ ev' = "-"
  /\ UNCHANGED <<agentVars, serverVars, repoVars>>

\* the awaited promise rejects: the request or its response is lost
FeedbackRejected(i) ==
  /\ calls[i].status \in {"pending", "returned"}
  /\ navs' = Append(navs, handleGenerateFeedbackCatch(calls[i]))
  /\ calls' = [calls EXCEPT ![i] = Answer("done", FALSE, 0)]
  /\ ev' = "-"
  /\ UNCHANGED <<agentVars, serverVars, repoVars>>

\* replies of the language model seen by the call controller's requests:
\* a throw, an object the schema accepts, an object it rejects
AgentLLM == {"throws", "good", "renamed"}

(* ------------ general.action.ts: getLatestInterviews ------------------- *)

\* doc.id is the document's position in the collection
Doc(store, i) ==
  [id |-> i, userId |-> store[i].userId, finalized |-> store[i].finalized,
   createdAt |-> store[i].createdAt]

\* .orderBy('createdAt', 'desc'); documents of equal createdAt by id
Before(x, y) ==
  \/ x.createdAt > y.createdAt
  \/ x.createdAt = y.createdAt /\ x.id > y.id

RECURSIVE OrderByCreatedAtDesc(_)
OrderByCreatedAtDesc(S) ==
  IF S = {} THEN <<>>
  ELSE LET m == CHOOSE x \in S : \A y \in S : x = y \/ Before(x, y)
       IN <<m>> \o OrderByCreatedAtDesc(S \ {m})

\* .limit(n)
Limit(s, n) == IF Len(s) <= n THEN s ELSE SubSeq(s, 1, n)

\* the query without its userId clause
LatestFilter_keepsOwn(d, uid) == d.finalized = TRUE

\* .where('finalized', '==', true).where('userId', '!=', userId)
LatestFilter(d, uid) == d.finalized = TRUE /\ d.userId # uid

\* getLatestInterviews(params): const { userId, limit = 20 } = params; the
\* query; null when the store raises an error
getLatestInterviews(params, store, dbOk) ==
  LET limit == IF params.hasLimit THEN params.limit ELSE DefaultLimit
      all == {Doc(store, i) : i \in DOMAIN store}
  IN IF ~dbOk THEN NoResult
     ELSE Returned(Limit(OrderByCreatedAtDesc(
                           {d \in all : LatestFilter(d, params.userId)}),
                         limit))

UserIds == {"u1", "u2"}

GetLatestInterviews(uid, hasLimit, limit, dbOk) ==
  LET params == [NoQuery EXCEPT !.op = "getLatestInterviews", !.userId = uid,
                                !.hasLimit = hasLimit, !.limit = limit]
  IN
  /\ readQuery' = params
  /\ readResult' = getLatestInterviews(params, interviews, dbOk)
  /\ ev' = IF dbOk THEN "read" ELSE "store-error"
  /\ UNCHANGED <<agentVars, calls, navs, serverVars, interviews, authVars>>

\* getInterviewByUserId(userId): .where('userId', '==', userId)
\* .orderBy('createdAt', 'desc'); catch: null
getInterviewByUserId(uid, store, dbOk) ==
  LET all == {Doc(store, i) : i \in DOMAIN store} IN
  IF ~dbOk THEN NoResult
  ELSE Returned(OrderByCreatedAtDesc({d \in all : d.userId = uid}))

GetInterviewByUserId(uid, dbOk) ==
  /\ readQuery' = [NoQuery EXCEPT !.op = "getInterviewByUserId",
                                  !.userId = uid]
  /\ readResult' = getInterviewByUserId(uid, interviews, dbOk)
  /\ ev' = IF dbOk THEN "read" ELSE "store-error"
  /\ UNCHANGED <<agentVars, calls, navs, serverVars, interviews, authVars>>

\* the earlier getInterviewById: no try/catch, data() of the snapshot
getInterviewById_noCatch(id, store, dbOk) ==
  IF ~dbOk THEN Thrown
  ELSE IF id \in DOMAIN store THEN Returned(<<store[id]>>)
  ELSE NoResult

\* getInterviewById(id): interviewDoc.exists ? interviewDoc.data() : null
\* (data() does not carry the id); catch: null
getInterviewById(id, store, dbOk) ==
  IF ~dbOk THEN NoResult
  ELSE IF id \in DOMAIN store THEN Returned(<<store[id]>>)
  ELSE NoResult

\* ids asked for: those of a small collection and one more
DocIds == 1..(MaxInterviews + 1)

GetInterviewById(id, dbOk) ==
  /\ readQuery' = [NoQuery EXCEPT !.op = "getInterviewById", !.docId = id]
  /\ readResult' = getInterviewById(id, interviews, dbOk)
  /\ ev' = IF dbOk THEN "read" ELSE "store-error"
  /\ UNCHANGED <<agentVars, calls, navs, serverVars, interviews, authVars>>

(* ------ general.action.ts: getFeedbackByInterviewId (feedback) --------- *)

\* string comparison, as the store orders string fields
RECURSIVE StringLess(_, _)
StringLess(a, b) ==
  IF b = <<>> THEN FALSE
  ELSE IF a = <<>> THEN TRUE
  ELSE IF Head(a) # Head(b) THEN Head(a) < Head(b)
  ELSE StringLess(Tail(a), Tail(b))

\* .where('interviewId', '==', interviewId).where('userId', '==', userId)
FeedbackFilter(d, params) ==
  d.interviewId = params.interviewId /\ d.userId = params.userId

\* the earlier query: no orderBy and no try/catch, so limit(1) yields any
\* matching document and a store error rejects
getFeedbackByInterviewId_unordered(params, store, dbOk) ==
  LET matching == {store[i] : i \in {j \in DOMAIN store :
                                        FeedbackFilter(store[j], params)}}
  IN IF ~dbOk THEN {Thrown}
     ELSE IF matching = {} THEN {NoResult}
     ELSE {Returned(<<d>>) : d \in matching}

\* getFeedbackByInterviewId(params): the values it can return.
\* .orderBy('createdAt', 'desc').limit(1): a matching document that no other
\* precedes (documents of equal createdAt come in the order of their
\* generated ids, which is arbitrary); feedbackSnapshot.empty: null; the
\* createdAt of a stored string has no toDate and is returned as it is;
\* catch: null
getFeedbackByInterviewId(params, store, dbOk) ==
  LET matching == {store[i] : i \in {j \in DOMAIN store :
                                        FeedbackFilter(store[j], params)}}
      first == {d \in matching :
                  \A e \in matching : ~StringLess(d.createdAt, e.createdAt)}
  IN IF ~dbOk THEN {NoResult}
     ELSE IF matching = {} THEN {NoResult}
     ELSE {Returned(<<d>>) : d \in first}

GetFeedbackByInterviewId(iid, uid, dbOk) ==
  LET params == [NoQuery EXCEPT !.op = "getFeedbackByInterviewId",
                                !.interviewId = iid, !.userId = uid]
  IN
  /\ readQuery' = params
  /\ readResult' \in getFeedbackByInterviewId(params, feedback, dbOk)
  /\ ev' = IF dbOk THEN "read" ELSE "store-error"
  /\ UNCHANGED <<agentVars, calls, navs, serverVars, interviews, authVars>>

(* ---------------- api/vapi/generate/route.ts: POST --------------------- *)

\* request bodies: text that is not JSON, the JSON value null, and objects
\* with or without a techstack string and a userid
RequestBodies ==
  { [kind |-> "malformed", hasTechstack |-> FALSE, userid |-> "undefined"],
    [kind |-> "null", hasTechstack |-> FALSE, userid |-> "undefined"],
    [kind |-> "object", hasTechstack |-> FALSE, userid |-> "u1"],
    [kind |-> "object", hasTechstack |-> TRUE, userid |-> "undefined"],
    [kind |-> "object", hasTechstack |-> TRUE, userid |-> "u1"],
    [kind |-> "object", hasTechstack |-> TRUE, userid |-> "u2"] }

\* generateText: it throws, or its text is a JSON array, or is not JSON
ModelTexts == {"throws", "array", "prose"}

\* a POST that stores the interview as a draft
POST_draft(body, text, insertOk, t) ==
  IF body.kind # "object"
  THEN [added |-> <<>>, threw |-> TRUE, success |-> FALSE]
  ELSE IF \/ text = "throws"
          \/ ~body.hasTechstack
          \/ text = "prose"
          \/ body.userid = "undefined"
          \/ ~insertOk
  THEN [added |-> <<>>, threw |-> FALSE, success |-> FALSE]
  ELSE [added |-> << [userId |-> body.userid, finalized |-> FALSE,
                      createdAt |-> t] >>,
        threw |-> FALSE, success |-> TRUE]

\* POST(request): the documents it adds and how it ends.
\* Line 28, outside the try: request.json() rejects for a body that is not
\* JSON, and destructuring null throws. Inside the try, in order:
\* generateText, techstack.split(","), JSON.parse(questions), and add(), which
\* rejects a document with an undefined field; the catch answers
\* {success: false}. (createdAt: the clock value that toISOString writes.)
POST(body, text, insertOk, t) ==
  IF body.kind # "object"
  THEN [added |-> <<>>, threw |-> TRUE, success |-> FALSE]
  ELSE IF \/ text = "throws"
          \/ ~body.hasTechstack
          \/ text = "prose"
          \/ body.userid = "undefined"
          \/ ~insertOk
  THEN [added |-> <<>>, threw |-> FALSE, success |-> FALSE]
  ELSE [added |-> << [userId |-> body.userid, finalized |-> TRUE,
                      createdAt |-> t] >>,
        threw |-> FALSE, success |-> TRUE]

PostGenerate(body, text, insertOk) ==
  LET r == POST(body, text, insertOk, now) IN
  /\ Len(interviews) < MaxInterviews
  /\ interviews' = interviews \o r.added
  /\ readQuery' = [NoQuery EXCEPT !.op = "POST", !.userId = body.userid]
  /\ readResult' = IF r.threw THEN Thrown
                   ELSE [NoResult EXCEPT !.null = FALSE,
                                         !.success = r.success]
  /\ ev' = "post"
  /\ UNCHANGED <<agentVars, calls, navs, serverVars, authVars>>

(* --------------------- auth.action.ts: signUp -------------------------- *)

Names == {"Ann", "Bob"}
Emails == {"a@x.io"}

\* db.collection('users').doc(uid): no document, or the document {name, email}
NoUser == [exists |-> FALSE, name |-> "", email |-> ""]
UserDoc(name, email) == [exists |-> TRUE, name |-> name, email |-> email]

\* what signUp returns
AlreadyExists == [success |-> FALSE, message |-> "Email already in Use"]
Failed ==
  [success |-> FALSE, message |-> "Account creation failed. Please try again."]
Created == [success |-> TRUE, message |-> "Account created successfully!"]
Pending == [success |-> FALSE, message |-> ""]

\* a signUp that does not look for an existing document
signUpGet_skipsCheck(userRecord, dbOk) ==
  IF ~dbOk THEN [pc |-> "done", result |-> Failed]
  ELSE [pc |-> "set", result |-> Pending]

\* signUp up to its first await: userRecord = await ...doc(uid).get();
\* if (userRecord.exists) return {success: false, ...}; a store error goes to
\* the catch (its code is not 'auth/email-already-exists')
signUpGet(userRecord, dbOk) ==
  IF ~dbOk THEN [pc |-> "done", result |-> Failed]
  ELSE IF userRecord.exists THEN [pc |-> "done", result |-> AlreadyExists]
  ELSE [pc |-> "set", result |-> Pending]

\* signUp from its second await: await ...doc(uid).set({name, email});
\* return {success: true, ...}; a store error goes to the catch
signUpSet(call, dbOk) ==
  IF ~dbOk THEN [written |-> FALSE, result |-> Failed]
  ELSE [written |-> TRUE, result |-> Created]

\* A signUp call runs to its first await. History: existed is whether the
\* uid had a document then, storeError whether the store raised an error
\* during the call, wrote the number of documents the call has written.
SignUpGet(uid, name, email, dbOk) ==
  LET r == signUpGet(users[uid], dbOk) IN
  /\ Len(signUps) < MaxSignUps
  /\ signUps' = Append(signUps,
                       [uid |-> uid, name |-> name, email |-> email,
                        pc |-> r.pc, result |-> r.result,
                        existed |-> users[uid].exists,
                        storeError |-> ~dbOk, wrote |-> 0])
  /\ ev' = "signUp"
  /\ UNCHANGED <<agentVars, calls, navs, serverVars, interviews,
                 readQuery, readResult, users, formVars>>

\* The call goes on after the get: the set and the return.
SignUpSet(i, dbOk) ==
  LET call == signUps[i]
      r == signUpSet(call, dbOk)
  IN
  /\ call.pc = "set"
  /\ users' = IF r.written
              THEN [users EXCEPT ![call.uid] = UserDoc(call.name, call.email)]
              ELSE users
  /\ signUps' = [signUps EXCEPT ![i] =
                   [call EXCEPT !.pc = "done", !.result = r.result,
                                !.storeError = ~dbOk,
                                !.wrote = IF r.written THEN 1 ELSE 0]]
  /\ ev' = "signUp"
  /\ UNCHANGED <<agentVars, calls, navs, serverVars, interviews,
                 readQuery, readResult, formVars>>

(* ------------------- AuthForm: schemas and onSubmit -------------------- *)

NoEmail == ""
NoSession == ""
SignInRoute == "/sign-in"

\* A string that a function takes apart is the sequence of its pieces; "@" is
\* a piece of its own, and no piece other than a whole domain name ends with
\* one of the valid domains.
\* String.prototype.split(separator)
RECURSIVE split(_, _)
split(str, separator) ==
  IF str = <<>> THEN << <<>> >>
  ELSE LET rest == split(Tail(str), separator) IN
       IF Head(str) = separator THEN << <<>> >> \o rest
       ELSE << <<Head(str)>> \o rest[1] >> \o Tail(rest)

\* String.prototype.endsWith
endsWith(str, suffix) ==
  /\ Len(suffix) <= Len(str)
  /\ SubSeq(str, Len(str) - Len(suffix) + 1, Len(str)) = suffix

validDomains ==
  << <<"gmail.com">>, <<"outlook.com">>, <<"hotmail.com">>, <<"yahoo.com">> >>

\* pieces that are a domain name with its top-level domain
DomainNames == {"gmail.com", "outlook.com", "hotmail.com", "yahoo.com", "x.io"}

\* z.string().email(): one '@', something before it, and after it labels
\* that end in a top-level domain
isEmail(email) ==
  LET parts == split(email, "@") IN
  /\ Len(parts) = 2
  /\ parts[1] # <<>>
  /\ parts[2] # <<>>
  /\ parts[2][Len(parts[2])] \in DomainNames

\* .refine(email => { const parts = email.split('@'); ... }) of both schemas
emailRefine(email) ==
  LET parts == split(email, "@") IN
  IF Len(parts) # 2 THEN FALSE
  ELSE IF parts[2] = <<>> THEN FALSE
  ELSE \E i \in DOMAIN validDomains : endsWith(parts[2], validDomains[i])

\* what is typed into the form: each text with what the schemas look at
FormNames == { [text |-> "Ann", chars |-> 3], [text |-> "Al", chars |-> 2] }

FormEmails ==
  { [text |-> "ann@gmail.com", pieces |-> <<"ann", "@", "gmail.com">>],
    [text |-> "ann@notgmail.com", pieces |-> <<"ann", "@", "not", "gmail.com">>],
    [text |-> "bob@mail.yahoo.com", pieces |-> <<"bob", "@", "mail.", "yahoo.com">>],
    [text |-> "ann@x.io", pieces |-> <<"ann", "@", "x.io">>],
    [text |-> "anngmail.com", pieces |-> <<"ann", "gmail.com">>],
    [text |-> "ann@b@gmail.com", pieces |-> <<"ann", "@", "b", "@", "gmail.com">>] }

FormPasswords ==
  { [text |-> "secret123", chars |-> 9, space |-> FALSE],
    [text |-> "secret456", chars |-> 9, space |-> FALSE],
    [text |-> "pass word", chars |-> 9, space |-> TRUE],
    [text |-> "short", chars |-> 5, space |-> FALSE] }

FormValues ==
  [name : FormNames, email : FormEmails, password : FormPasswords,
   confirmPassword : FormPasswords]

\* the fields for which signUpSchema reports an error
signUpSchema(values) ==
  {f \in {"name"} : values.name.chars < 3}
  \cup {f \in {"email"} :
          ~(isEmail(values.email.pieces) /\ emailRefine(values.email.pieces))}
  \cup {f \in {"password"} :
          values.password.chars < 8 \/ values.password.space}
  \cup {f \in {"confirmPassword"} : values.confirmPassword.chars < 8}

\* signInSchema: name is optional, there is no confirmPassword
signInSchema(values) ==
  {f \in {"email"} :
          ~(isEmail(values.email.pieces) /\ emailRefine(values.email.pieces))}
  \cup {f \in {"password"} :
          values.password.chars < 8 \/ values.password.space}

\* the toast of the errors effect for a field
friendlyMessage(field) ==
  CASE field = "email" -> "Invalid Email Format"
    [] field = "name" -> "Name must be at least 3 characters"
    [] field = "password" ->
         "Password must be at least 8 characters and contain no spaces"
    [] OTHER -> "Passwords do not match"

\* the identity provider's answers to the client SDK
AuthAnswers == {"ok", "network-request-failed", "wrong-password"}

HasAccount(email) == \E uid \in UserIds : accounts[uid] = email
UidOf(email) == CHOOSE uid \in UserIds : accounts[uid] = email
FreeUids == {uid \in UserIds : accounts[uid] = NoEmail}
\* the identity provider issues a uid no account has
NewUid == CHOOSE uid \in FreeUids : TRUE

\* an onSubmit that does not compare the two passwords
onSubmitSignUp_noCheck(values, answer) ==
  IF answer # "ok" THEN "There was an error"
  ELSE IF HasAccount(values.email.text) THEN "Email already in Use"
  ELSE "created"

\* onSubmit, sign-up branch, up to the call of signUp: the toast of the path
\* that returns, or "created" when createUserWithEmailAndPassword resolved
onSubmitSignUp(values, answer) ==
  IF values.password.text # values.confirmPassword.text
  THEN "Passwords do not match"
  ELSE IF answer # "ok" THEN "There was an error"
  ELSE IF HasAccount(values.email.text) THEN "Email already in Use"
  ELSE "created"

\* onSubmit, sign-in branch, up to the call of signIn: the toast of the path
\* that returns, or "token" when getIdToken gave a token
onSubmitSignIn(values, answer, tokenOk) ==
  IF answer = "network-request-failed" THEN "There was an error"
  ELSE IF ~HasAccount(values.email.text) \/ answer = "wrong-password"
  THEN "Invalid email or password"
  ELSE IF ~tokenOk THEN "Sign in Failed"
  ELSE "token"

\* AuthForm between submissions / during one. History: formType, email,
\* pieces, mismatch and ran (onSubmit was called) describe the last submission.
Idle ==
  [pc |-> "idle", formType |-> "none", name |-> "", email |-> "",
   pieces |-> <<>>, mismatch |-> FALSE, ran |-> FALSE, uid |-> "none",
   call |-> 0, success |-> FALSE, cookieSet |-> FALSE]

Submitted(formType, values) ==
  [Idle EXCEPT !.formType = formType, !.name = values.name.text,
               !.email = values.email.text, !.pieces = values.email.pieces,
               !.mismatch =
                  values.password.text # values.confirmPassword.text]

\* form.handleSubmit(onSubmit), sign-up form: the resolver runs the schema
\* and onSubmit is called only when it reports no error
SubmitSignUp(values, answer) ==
  LET errors == signUpSchema(values)
      out == onSubmitSignUp(values, answer)
      sub == Submitted("sign-up", values)
  IN
  /\ form.pc = "idle"
  /\ submits < MaxSubmits
  /\ submits' = submits + 1
  /\ IF errors # {}
     THEN /\ toast' = {friendlyMessage(f) : f \in errors}
          /\ form' = sub
          /\ accounts' = accounts
     ELSE IF out # "created"
     THEN /\ toast' = {out}
          /\ form' = [sub EXCEPT !.ran = TRUE]
          /\ accounts' = accounts
     ELSE /\ FreeUids # {}
          /\ Len(signUps) < MaxSignUps
          /\ toast' = {}
          /\ accounts' = [accounts EXCEPT ![NewUid] = values.email.text]
          /\ form' = [sub EXCEPT !.ran = TRUE, !.pc = "signUp",
                                 !.uid = NewUid, !.call = Len(signUps) + 1]
  /\ ev' = "submit"
  /\ UNCHANGED <<agentVars, calls, navs, serverVars, interviews,
                 readQuery, readResult, users, signUps, session>>

\* the signUp call of the running onSubmit: its two parts
FormSignUpGet(dbOk) ==
  /\ form.pc = "signUp"
  /\ Len(signUps) < form.call
  /\ SignUpGet(form.uid, form.name, form.email, dbOk)

FormSignUpSet(dbOk) ==
  /\ form.pc = "signUp"
  /\ form.call \in DOMAIN signUps
  /\ SignUpSet(form.call, dbOk)

\* onSubmit after `await signUp(...)`: if (!result?.success) toast.error;
\* else toast.success and router.push('/sign-in')
SignUpResume ==
  /\ form.pc = "signUp"
  /\ form.call \in DOMAIN signUps
  /\ signUps[form.call].pc = "done"
  /\ LET result == signUps[form.call].result IN
     /\ toast' = IF result.success THEN {"Account created successfully!"}
                 ELSE {result.message}
     /\ navs' = IF result.success THEN Append(navs, SignInRoute) ELSE navs
     /\ form' = [form EXCEPT !.pc = "idle", !.success = result.success]
  /\ ev' = "submit"
  /\ UNCHANGED <<agentVars, calls, serverVars, interviews, readQuery,
                 readResult, users, signUps, accounts, session, submits>>

\* form.handleSubmit(onSubmit), sign-in form
SubmitSignIn(values, answer, tokenOk) ==
  LET errors == signInSchema(values)
      out == onSubmitSignIn(values, answer, tokenOk)
      sub == [Submitted("sign-in", values) EXCEPT !.mismatch = FALSE]
  IN
  /\ form.pc = "idle"
  /\ submits < MaxSubmits
  /\ submits' = submits + 1
  /\ IF errors # {}
     THEN /\ toast' = {friendlyMessage(f) : f \in errors}
          /\ form' = sub
     ELSE IF out # "token"
     THEN /\ toast' = {out}
          /\ form' = [sub EXCEPT !.ran = TRUE]
     ELSE /\ toast' = {}
          /\ form' = [sub EXCEPT !.ran = TRUE, !.pc = "signIn",
                                 !.uid = UidOf(values.email.text)]
  /\ ev' = "submit"
  /\ UNCHANGED <<agentVars, calls, navs, serverVars, interviews,
                 readQuery, readResult, users, signUps, accounts, session>>

\* signIn(params): the cookie it sets (NoSession: none) and what it returns.
\* auth.getUserByEmail and setSessionCookie (cookies(), createSessionCookie,
\* cookieStore.set) are inside the try; the catch returns {success: false}.
signIn(uid, adminOk, cookieOk) ==
  IF ~adminOk \/ ~cookieOk
  THEN [cookie |-> NoSession, success |-> FALSE]
  ELSE [cookie |-> uid, success |-> TRUE]

\* the server action runs for the waiting onSubmit
SignInServer(adminOk, cookieOk) ==
  LET r == signIn(form.uid, adminOk, cookieOk) IN
  /\ form.pc = "signIn"
  /\ session' = IF r.cookie # NoSession THEN r.cookie ELSE session
  /\ form' = [form EXCEPT !.pc = "signInReturned", !.success = r.success,
                          !.cookieSet = (r.cookie # NoSession)]
  /\ toast' = {}
  /\ ev' = "submit"
  /\ UNCHANGED <<agentVars, calls, navs, serverVars, interviews, readQuery,
                 readResult, users, signUps, accounts, submits>>

\* onSubmit after `await signIn({ email, idToken })`: the value it resolved
\* with is not looked at
onSubmitSignInResume(success) ==
  [toast |-> {"Logged In successfully!"}, push |-> <<HomeRoute>>]

SignInResume ==
  LET r == onSubmitSignInResume(form.success) IN
  /\ form.pc = "signInReturned"
  /\ toast' = r.toast
  /\ navs' = navs \o r.push
  /\ form' = [form EXCEPT !.pc = "idle"]
  /\ ev' = "submit"
  /\ UNCHANGED <<agentVars, calls, serverVars, interviews, readQuery,
                 readResult, users, signUps, accounts, session, submits>>

(* ------------- the feedback collection driven directly ----------------- *)

\* createFeedback is an exported server action: any page load may invoke it
InterviewIds == {"i1", "i2"}

\* which of createFeedback's awaited calls throws, if any
Failure(llm, insertOk) ==
  IF llm = "throws" THEN "model-throws"
  ELSE IF ~feedbackSchema(LLMObject(llm)) THEN "schema-throws"
  ELSE IF ~insertOk THEN "insert-throws"
  ELSE "-"

ServerCreateFeedback(iid, uid, llm, insertOk) ==
  LET r == createFeedback([interviewId |-> iid, userId |-> uid,
                           transcript |-> <<>>], llm, insertOk, now)
  IN
  /\ Len(feedback) < MaxFeedback
  /\ feedback' = feedback \o r.added
  /\ readQuery' = [NoQuery EXCEPT !.op = "createFeedback", !.userId = uid,
                                  !.interviewId = iid]
  /\ readResult' = IF r.threw THEN Thrown
                   ELSE [NoResult EXCEPT !.null = FALSE,
                                         !.success = r.success,
                                         !.feedbackId = r.feedbackId]
  /\ ev' = Failure(llm, insertOk)
  /\ UNCHANGED <<agentVars, calls, navs, now, interviews, authVars>>

\* the server's clock advances
Tick ==
  /\ now < MaxTime
  /\ now' = now + 1
  /\ UNCHANGED <<agentVars, calls, navs, feedback, ev, repoVars>>

(* ------------------------------ the system ----------------------------- *)

Init ==
  /\ type \in {"generate", "interview"}
  /\ mounted = TRUE
  /\ instance = 1
  /\ listeners = on({}, 1)
  /\ callStatus = "INACTIVE"
  /\ isSpeaking = FALSE
  /\ messages = <<>>
  /\ startPending = 0
  /\ calls = <<>>
  /\ feedback = <<>>
  /\ navs = <<>>
  /\ now = 0
  /\ finals = <<>>
  /\ callFinals = <<>>
  /\ finishedCount = 0
  /\ ev = "-"
  /\ interviews = <<>>
  /\ readQuery = NoQuery
  /\ readResult = NoResult
  /\ users = [uid \in UserIds |-> NoUser]
  /\ signUps = <<>>
  /\ accounts = [uid \in UserIds |-> NoEmail]
  /\ session = NoSession
  /\ form = Idle
  /\ toast = {}
  /\ submits = 0

Next ==
  \/ handleCall
  \/ StartResolved
  \/ StartRejected
  \/ handleDisconnect
  \/ CallStartEvent
  \/ CallEndEvent
  \/ \E m \in Message : MessageEvent(m)
  \/ SpeechStartEvent
  \/ SpeechEndEvent
  \/ \E msg \in ErrorMessages : ErrorEvent(msg)
  \/ Unmount
  \/ \E i \in DOMAIN calls, llm \in AgentLLM, insertOk \in BOOLEAN :
       CreateFeedbackServer(i, llm, insertOk)
  \/ \E i \in DOMAIN calls : FeedbackResume(i)
  \/ \E i \in DOMAIN calls : FeedbackRejected(i)

Spec == Init /\ [][Next]_vars

\* The controller when every createFeedback request is answered: the server
\* action runs for a pending request and its return value is delivered to
\* the waiting handleGenerateFeedback (a request may still be rejected).
SpecLive ==
  /\ Init /\ [][Next]_vars
  /\ \A i \in 1..MaxEffects :
       /\ WF_vars(i \in DOMAIN calls /\
                    \E llm \in AgentLLM, insertOk \in BOOLEAN :
                      CreateFeedbackServer(i, llm, insertOk))
       /\ WF_vars(i \in DOMAIN calls /\ FeedbackResume(i))

(* controller instances mounted one after the other on the shared client *)

NextMount ==
  \/ handleCall
  \/ StartResolved
  \/ StartRejected
  \/ handleDisconnect
  \/ CallStartEvent
  \/ CallEndEvent
  \/ \E m \in Message : MessageEvent(m)
  \/ SpeechStartEvent
  \/ SpeechEndEvent
  \/ \E msg \in ErrorMessages : ErrorEvent(msg)
  \/ Unmount
  \/ Mount

SpecMount == Init /\ [][NextMount]_vars

(* the feedback generator alone *)

NextServer ==
  \/ \E iid \in InterviewIds, uid \in UserIds,
        llm \in LLMKeys \cup {"throws"}, insertOk \in BOOLEAN :
       ServerCreateFeedback(iid, uid, llm, insertOk)
  \/ Tick

SpecServer == Init /\ [][NextServer]_vars

(* the feedback collection: writes and reads *)

NextFeedback ==
  \/ \E iid \in InterviewIds, uid \in UserIds,
        llm \in AgentLLM, insertOk \in BOOLEAN :
       ServerCreateFeedback(iid, uid, llm, insertOk)
  \/ Tick
  \/ \E iid \in InterviewIds, uid \in UserIds, dbOk \in BOOLEAN :
       GetFeedbackByInterviewId(iid, uid, dbOk)

SpecFeedback == Init /\ [][NextFeedback]_vars

(* the generation endpoint alone *)

NextGenerate ==
  \/ \E body \in RequestBodies, text \in ModelTexts, insertOk \in BOOLEAN :
       PostGenerate(body, text, insertOk)
  \/ Tick

SpecGenerate == Init /\ [][NextGenerate]_vars

(* the interviews collection under every operation that runs beside it:
   the endpoint that writes it, its reads, a call of the controller and the
   feedback generator *)

NextInterviews ==
  \/ \E body \in RequestBodies, text \in ModelTexts, insertOk \in BOOLEAN :
       PostGenerate(body, text, insertOk)
  \/ \E id \in DocIds, dbOk \in BOOLEAN : GetInterviewById(id, dbOk)
  \/ handleCall
  \/ CallStartEvent
  \/ handleDisconnect
  \/ \E i \in DOMAIN calls, insertOk \in BOOLEAN :
       CreateFeedbackServer(i, "good", insertOk)
  \/ \E i \in DOMAIN calls : FeedbackResume(i)

SpecInterviews == Init /\ [][NextInterviews]_vars

(* registration alone *)

NextAuth ==
  \/ \E uid \in UserIds, name \in Names, email \in Emails, dbOk \in BOOLEAN :
       SignUpGet(uid, name, email, dbOk)
  \/ \E i \in DOMAIN signUps, dbOk \in BOOLEAN : SignUpSet(i, dbOk)

SpecAuth == Init /\ [][NextAuth]_vars

(* the sign-up / sign-in form with the identity provider and signUp/signIn *)

NextForm ==
  \/ \E values \in FormValues, answer \in AuthAnswers :
       SubmitSignUp(values, answer)
  \/ \E dbOk \in BOOLEAN : FormSignUpGet(dbOk)
  \/ \E dbOk \in BOOLEAN : FormSignUpSet(dbOk)
  \/ SignUpResume
  \/ \E values \in FormValues, answer \in AuthAnswers, tokenOk \in BOOLEAN :
       SubmitSignIn(values, answer, tokenOk)
  \/ \E adminOk \in BOOLEAN, cookieOk \in BOOLEAN :
       SignInServer(adminOk, cookieOk)
  \/ SignInResume

SpecForm == Init /\ [][NextForm]_vars

(* the interview repository alone *)

InterviewData ==
  [userId : UserIds, finalized : BOOLEAN, createdAt : 1..2]

\* a collection with more finalized interviews of user u2 than the default
\* limit, a draft of u2 and an interview of u1
ManyInterviews ==
  [i \in 1..(DefaultLimit + 3) |->
     [userId |-> IF i = DefaultLimit + 3 THEN "u1" ELSE "u2",
      finalized |-> (i # DefaultLimit + 2),
      createdAt |-> i]]

\* a feedback collection: empty, or with the record of one createFeedback
FeedbackStores ==
  { <<>>,
    << [id |-> 1, interviewId |-> "i1", userId |-> "u1",
        totalScore |-> LLMObject("good").totalScore,
        categoryScores |-> LLMObject("good").categoryScores,
        strengths |-> LLMObject("good").strengths,
        areasForImprovement |-> LLMObject("good").areasForImprovement,
        finalAssessment |-> LLMObject("good").finalAssessment,
        createdAt |-> toISOString(0)] >> }

Stores ==
  UNION {[1..n -> InterviewData] : n \in 0..MaxInterviews} \cup {ManyInterviews}

InitStores ==
  /\ type = "interview"
  /\ mounted = TRUE
  /\ instance = 1
  /\ listeners = on({}, 1)
  /\ callStatus = "INACTIVE"
  /\ isSpeaking = FALSE
  /\ messages = <<>>
  /\ startPending = 0
  /\ calls = <<>>
  /\ feedback \in FeedbackStores
  /\ navs = <<>>
  /\ now = 0
  /\ finals = <<>>
  /\ callFinals = <<>>
  /\ finishedCount = 0
  /\ ev = "-"
  /\ interviews \in Stores
  /\ readQuery = NoQuery
  /\ readResult = NoResult
  /\ users = [uid \in UserIds |-> NoUser]
  /\ signUps = <<>>
  /\ accounts = [uid \in UserIds |-> NoEmail]
  /\ session = NoSession
  /\ form = Idle
  /\ toast = {}
  /\ submits = 0

NextRepo ==
  \E uid \in UserIds, hasLimit \in BOOLEAN, limit \in 1..2, dbOk \in BOOLEAN :
    /\ hasLimit \/ limit = 1
    /\ \/ GetLatestInterviews(uid, hasLimit, limit, dbOk)
       \/ limit = 1 /\ ~hasLimit /\ GetInterviewByUserId(uid, dbOk)
       \/ limit = 1 /\ ~hasLimit /\
            \E id \in DocIds : GetInterviewById(id, dbOk)
       \/ limit = 1 /\ ~hasLimit /\
            \E iid \in InterviewIds : GetFeedbackByInterviewId(iid, uid, dbOk)

SpecRepo == InitStores /\ [][NextRepo]_vars

(* ================================ claims ================================ *)

\* runs of the FINISHED branch of the post-call effect so far
SideEffects == IF type = "generate" THEN Len(navs) ELSE Len(calls)

\* C1: each time callStatus enters FINISHED the post-call side effect is
\* performed exactly once (one router.push('/') in generate mode, one
\* createFeedback invocation in interview mode), whatever events follow.
C1_ExactlyOncePerFinish == SideEffects = finishedCount

\* C2: in interview mode each call that reaches FINISHED persists exactly one
\* Feedback record (never more records than finished calls), and a navigation
\* to the feedback view only follows a persisted record.
C2_OneRecordPerCall ==
  type = "interview" =>
    /\ Len(feedback) <= finishedCount
    /\ Cardinality({k \in DOMAIN navs : navs[k] = FeedbackRoute})
         <= Len(feedback)

\* C3: in generate mode every entry into FINISHED has led to a navigation to
\* '/', createFeedback is never invoked, no Feedback record is written and no
\* navigation goes to a feedback view.
C3_GenerateGoesHome ==
  type = "generate" =>
    /\ calls = <<>>
    /\ feedback = <<>>
    /\ \A k \in DOMAIN navs : navs[k] = HomeRoute
    /\ Len(navs) >= finishedCount

C3_Witness ==
  /\ type = "generate"
  /\ callStatus = "FINISHED"
  /\ finishedCount >= 1
  /\ Len(navs) >= 1

\* C4: when the model call inside createFeedback throws, the feedback
\* collection is unchanged and the value returned is {success: false}; and
\* when handleGenerateFeedback receives a {success: false} value it pushes
\* '/', not the feedback view.
C4_ModelThrows ==
  [][ /\ ev' = "model-throws" =>
           /\ feedback' = feedback
           /\ \E i \in DOMAIN calls :
                /\ calls[i].status = "pending"
                /\ calls'[i] = Answer("returned", FALSE, 0)
      /\ \A i \in DOMAIN calls :
           (/\ calls[i].status = "returned"
            /\ ~calls[i].success
            /\ calls'[i].status = "done")
           => navs' = Append(navs, HomeRoute) ]_vars

C4_Witness ==
  /\ ev = "model-throws"
  /\ feedback = <<>>
  /\ \E i \in DOMAIN calls : calls[i] = Answer("returned", FALSE, 0)

\* C5: every element of a transcript handed to createFeedback is the
\* {role, content} of a final transcript event that was delivered; nothing of
\* a partial transcript or of a non-transcript message is in it.
C5_OnlyFinals ==
  \A i \in DOMAIN calls :
    calls[i].status = "pending" =>
      \A k \in DOMAIN calls[i].transcript :
        \E j \in DOMAIN finals : finals[j] = calls[i].transcript[k]

C5_Witness ==
  \E i \in DOMAIN calls :
    /\ calls[i].status = "pending"
    /\ Len(calls[i].transcript) >= 1
    /\ calls[i].transcript = finals

InRange(x) == x >= 0 /\ x <= 100

\* C6: every persisted Feedback record has exactly the five fixed categories
\* in order, each score in [0,100], and totalScore in [0,100].
C6_ScoresInRange ==
  \A i \in DOMAIN feedback :
    /\ Len(feedback[i].categoryScores) = 5
    /\ \A k \in 1..5 :
         /\ feedback[i].categoryScores[k].name = CategoryNames[k]
         /\ InRange(feedback[i].categoryScores[k].score)
    /\ InRange(feedback[i].totalScore)

\* C7: getLatestInterviews returns documents of the collection, none of the
\* given user and none with finalized = false, at most `limit` of them (20
\* when limit is omitted), ordered by createdAt descending.
C7_LatestInterviews ==
  (readQuery.op = "getLatestInterviews" /\ ~readResult.null) =>
    LET docs == readResult.docs
        limit == IF readQuery.hasLimit THEN readQuery.limit ELSE 20
    IN /\ \A k \in DOMAIN docs :
            /\ docs[k].id \in DOMAIN interviews
            /\ docs[k] = Doc(interviews, docs[k].id)
            /\ docs[k].userId # readQuery.userId
            /\ docs[k].finalized = TRUE
       /\ Len(docs) <= limit
       /\ \A k \in 1..(Len(docs) - 1) :
            docs[k].createdAt >= docs[k + 1].createdAt

C7_Witness ==
  /\ readQuery.op = "getLatestInterviews"
  /\ ~readQuery.hasLimit
  /\ ~readResult.null
  /\ Len(readResult.docs) = 20
  /\ \E i \in DOMAIN interviews : interviews[i].userId = readQuery.userId
  /\ \E i \in DOMAIN interviews : ~interviews[i].finalized

AllowedTransitions ==
  { <<"INACTIVE", "CONNECTING">>, <<"FINISHED", "CONNECTING">>,
    <<"CONNECTING", "ACTIVE">>, <<"CONNECTING", "INACTIVE">>,
    <<"ACTIVE", "FINISHED">> }

\* C8: callStatus changes only along INACTIVE|FINISHED -> CONNECTING,
\* CONNECTING -> ACTIVE, CONNECTING -> INACTIVE and ACTIVE -> FINISHED.
C8_OnlyAllowedTransitions ==
  [][callStatus' # callStatus
       => <<callStatus, callStatus'>> \in AllowedTransitions]_vars

\* C9: when vapi.start fails, callStatus becomes INACTIVE, the failed request
\* is not replaced by another one (requests are issued only by handleCall),
\* and no createFeedback invocation, navigation or Feedback record results.
C9_StartFailure ==
  [][ /\ ev' = "start-failed" =>
           /\ mounted => callStatus' = "INACTIVE"
           /\ startPending' = startPending - 1
           /\ calls' = calls
           /\ navs' = navs
           /\ feedback' = feedback
      /\ startPending' > startPending => ev' = "start" ]_vars

C9_Witness ==
  /\ ev = "start-failed"
  /\ mounted
  /\ callStatus = "INACTIVE"
  /\ startPending = 0

\* C10: messages only grows by appending, and the transcript handed to
\* createFeedback when a call finishes is exactly the sequence of final
\* transcript events of that call.
C10_TranscriptOfTheCall ==
  [][ /\ IsPrefix(messages, messages')
      /\ Len(calls') > Len(calls)
           => calls'[Len(calls')].transcript = callFinals' ]_vars

\* the fields of a document of the feedback collection
FeedbackFields ==
  {"id", "interviewId", "userId", "totalScore", "categoryScores",
   "strengths", "areasForImprovement", "finalAssessment", "createdAt"}

\* a step of a direct createFeedback call (Tick changes the clock instead)
CreateStep == now' = now /\ readQuery'.op = "createFeedback"

\* C11: createFeedback returns {success: true, feedbackId} exactly when it
\* has inserted one complete Feedback record (feedbackId being its id), and
\* returns {success: false} with the collection unchanged when the model
\* call, the schema validation or the insert throws; the call always returns,
\* it never rejects.
C11_CreateFeedbackOutcome ==
  [][ CreateStep =>
        LET r == readResult'
            n == Len(feedback')
        IN /\ ~r.threw /\ ~r.null
           /\ r.success <=> (n = Len(feedback) + 1)
           /\ r.success <=> (ev' = "-")
           /\ r.success =>
                /\ feedback' = Append(feedback, feedback'[n])
                /\ DOMAIN feedback'[n] = FeedbackFields
                /\ feedback'[n].id = r.feedbackId
                /\ r.feedbackId # 0
                /\ feedback'[n].interviewId = readQuery'.interviewId
                /\ feedback'[n].userId = readQuery'.userId
           /\ ~r.success =>
                /\ feedback' = feedback
                /\ r.feedbackId = 0
                /\ ev' \in {"model-throws", "schema-throws", "insert-throws"}
    ]_vars

C11_Witness ==
  /\ readQuery.op = "createFeedback"
  /\ ev = "insert-throws"
  /\ ~readResult.success
  /\ ~readResult.threw
  /\ Len(feedback) = 1

\* the Feedback records matching the last read's interviewId and userId
Matching ==
  {feedback[i] : i \in {j \in DOMAIN feedback :
                          /\ feedback[j].interviewId = readQuery.interviewId
                          /\ feedback[j].userId = readQuery.userId}}

\* the last read returned a matching record that has the greatest createdAt
ReturnsLatest ==
  /\ ~readResult.null /\ ~readResult.threw
  /\ Len(readResult.docs) = 1
  /\ readResult.docs[1] \in Matching
  /\ \A d \in Matching :
       ~StringLess(readResult.docs[1].createdAt, d.createdAt)

\* C12 as stated: getFeedbackByInterviewId returns null when no Feedback
\* record matches both interviewId and userId, and otherwise returns the
\* matching record with the greatest createdAt.
C12_AsStated ==
  (readQuery.op = "getFeedbackByInterviewId"
     /\ ev \in {"read", "store-error"}) =>
    IF Matching = {} THEN readResult.null ELSE ReturnsLatest

\* C12 amended: when the store answers the query, getFeedbackByInterviewId
\* returns null if no Feedback record matches both interviewId and userId and
\* otherwise the matching record with the greatest createdAt; when the store
\* raises an error it returns null, whatever records match.
C12_LatestFeedback ==
  readQuery.op = "getFeedbackByInterviewId" =>
    /\ ev = "read" =>
         IF Matching = {} THEN readResult.null ELSE ReturnsLatest
    /\ ev = "store-error" => readResult.null /\ ~readResult.threw

C12_Witness ==
  /\ readQuery.op = "getFeedbackByInterviewId"
  /\ ev = "read"
  /\ Cardinality(Matching) = 2
  /\ \E d \in Matching : StringLess(d.createdAt, readResult.docs[1].createdAt)
  /\ ReturnsLatest

Outstanding == {i \in DOMAIN calls : calls[i].status # "done"}

\* C14: within one Call Controller instance at most one createFeedback
\* request is outstanding at any time.
C14_OneOutstanding == Cardinality(Outstanding) <= 1

CanStart ==
  mounted /\ callStatus \in {"INACTIVE", "FINISHED"} /\ startPending < MaxStarts
CanStop == mounted /\ callStatus = "ACTIVE" /\ EffectRoom
CanEnd == mounted /\ (callStatus # "FINISHED" => EffectRoom)

\* C16: speech-start sets isSpeaking to true and speech-end sets it to false,
\* both leaving the call status and the transcript unchanged; start, stop,
\* call-start, call-end and message events leave isSpeaking unchanged; and
\* whether start, stop, call-start and call-end can act does not depend on
\* isSpeaking.
C16_SpeakingIndependent ==
  /\ [][ /\ SpeechStartEvent =>
              isSpeaking' = TRUE /\ callStatus' = callStatus
                                 /\ messages' = messages
         /\ SpeechEndEvent =>
              isSpeaking' = FALSE /\ callStatus' = callStatus
                                  /\ messages' = messages
         /\ (\/ handleCall \/ handleDisconnect
             \/ CallStartEvent \/ CallEndEvent
             \/ \E m \in Message : MessageEvent(m))
              => isSpeaking' = isSpeaking
         /\ isSpeaking' # isSpeaking =>
              /\ callStatus' = callStatus /\ messages' = messages
              /\ calls' = calls /\ navs' = navs
       ]_vars
  /\ [](/\ (ENABLED handleCall) <=> CanStart
        /\ (ENABLED handleDisconnect) <=> CanStop
        /\ (ENABLED CallStartEvent) <=> mounted
        /\ (ENABLED CallEndEvent) <=> CanEnd)

C16_Witness ==
  /\ isSpeaking
  /\ callStatus = "CONNECTING"
  /\ ev = "start"
  /\ messages # <<>>

\* C17: an error event leaves the call status, the transcript and isSpeaking
\* unchanged whatever its message, and is logged exactly when its message
\* does not contain 'Meeting ended due to ejection'; the status enters
\* FINISHED only by a call-end event or by stop.
C17_ErrorIsInert ==
  [][ /\ \A msg \in ErrorMessages :
           ErrorEvent(msg) =>
             /\ callStatus' = callStatus
             /\ messages' = messages
             /\ isSpeaking' = isSpeaking
             /\ calls' = calls /\ navs' = navs
             /\ onError(msg)
                  <=> ~includes(msg, "Meeting ended due to ejection")
      /\ (callStatus' = "FINISHED" /\ callStatus # "FINISHED")
           => (CallEndEvent \/ handleDisconnect)
    ]_vars

\* an error event has just been handled during a call (it resets ev)
C17_Witness ==
  /\ ENABLED (\E msg \in ErrorMessages : ErrorEvent(msg))
  /\ ev = "-"
  /\ callStatus = "ACTIVE"
  /\ isSpeaking
  /\ messages # <<>>
  /\ startPending = 1

\* the signUp calls that take a step, as they are after it
SignUpStepped ==
  {i \in DOMAIN signUps' : i \notin DOMAIN signUps \/ signUps[i] # signUps'[i]}

\* a call on a uid that had a document: {success: false} with a message,
\* nothing written
Refused(c) ==
  /\ c.pc = "done"
  /\ ~c.result.success /\ c.result.message # ""
  /\ c.wrote = 0
  /\ users' = users

\* a call that has written its one document {name, email} under its uid
Registered(c) ==
  /\ c.result.success
  /\ c.wrote = 1
  /\ users' = [users EXCEPT ![c.uid] = UserDoc(c.name, c.email)]

\* C18 as stated: signUp on a uid that already has a users document returns
\* {success: false} with a message and leaves the collection unchanged;
\* signUp on a fresh uid writes exactly one document {name, email} under it.
C18_AsStated ==
  [][ \A i \in SignUpStepped :
        LET c == signUps'[i] IN
        /\ c.existed => Refused(c)
        /\ (~c.existed /\ c.pc = "set") => users' = users
        /\ (~c.existed /\ c.pc = "done") => Registered(c)
    ]_vars

\* C18 amended: signUp on a uid that already has a users document returns
\* {success: false} with a message and leaves the collection unchanged;
\* signUp on a fresh uid writes exactly one document {name, email} under it
\* and returns {success: true}, unless the store raises an error during the
\* call: then it writes nothing and returns {success: false} with a message.
C18_SignUp ==
  [][ \A i \in SignUpStepped :
        LET c == signUps'[i] IN
        /\ c.existed => Refused(c)
        /\ (~c.existed /\ c.pc = "set") => users' = users
        /\ (~c.existed /\ c.pc = "done" /\ ~c.storeError) => Registered(c)
        /\ (~c.existed /\ c.pc = "done" /\ c.storeError) => Refused(c)
    ]_vars

C18_Witness ==
  /\ Len(signUps) = 2
  /\ signUps[1].uid = signUps[2].uid
  /\ ~signUps[1].existed /\ signUps[1].wrote = 1
  /\ signUps[2].existed /\ signUps[2].result = AlreadyExists
  /\ signUps[2].name # signUps[1].name
  /\ users[signUps[1].uid] = UserDoc(signUps[1].name, signUps[1].email)

\* C19: every POST to the generation endpoint ends in one of two outcomes:
\* exactly one new Interview record is inserted, with the request's userid
\* and finalized = true, and the response is {success: true}; or no record is
\* inserted and the response is {success: false}.
C19_TwoOutcomes ==
  [][ (readQuery'.op = "POST" /\ now' = now) =>
        LET r == readResult'
            n == Len(interviews')
        IN /\ ~r.threw
           /\ \/ /\ r.success
                 /\ n = Len(interviews) + 1
                 /\ interviews' = Append(interviews, interviews'[n])
                 /\ interviews'[n].userId = readQuery'.userId
                 /\ interviews'[n].finalized = TRUE
              \/ /\ ~r.success
                 /\ interviews' = interviews
    ]_vars

ReadOps ==
  {"getInterviewByUserId", "getLatestInterviews", "getInterviewById",
   "getFeedbackByInterviewId"}

\* C20: each repository read returns (it does not throw), returns null when
\* the document store raises an error, and changes no collection;
\* getInterviewById returns null exactly when no document has the given id
\* or the store raises an error.
C20_ReadsNeverThrow ==
  /\ [](readQuery.op \in ReadOps =>
          /\ ~readResult.threw
          /\ ev = "store-error" => readResult.null
          /\ (readQuery.op = "getInterviewById" /\ ev = "read") =>
               (readResult.null <=> readQuery.docId \notin DOMAIN interviews))
  /\ [][readQuery'.op \in ReadOps =>
          /\ interviews' = interviews
          /\ feedback' = feedback
          /\ users' = users]_vars

C20_Witness ==
  /\ readQuery.op = "getInterviewById"
  /\ ev = "store-error"
  /\ readQuery.docId \in DOMAIN interviews
  /\ readResult.null
  /\ ~readResult.threw

\* C21: every record of the interviews collection has finalized = true from
\* its insertion on; a step of the program leaves the records already there
\* as they are and in place, and only the generation endpoint adds one.
C21_InterviewsImmutable ==
  /\ [](\A i \in DOMAIN interviews : interviews[i].finalized = TRUE)
  /\ [][ /\ IsPrefix(interviews, interviews')
         /\ Len(interviews') <= Len(interviews) + 1
         /\ interviews' # interviews => readQuery'.op = "POST" ]_vars

C21_Witness ==
  /\ Len(interviews) >= 1
  /\ feedback # <<>>
  /\ navs # <<>>
  /\ callStatus = "FINISHED"
  /\ readQuery.op = "getInterviewById"
  /\ ~readResult.null

\* the call button can be pressed (it is rendered and not disabled)
StartButton == mounted /\ callStatus \in {"INACTIVE", "FINISHED"}

\* C22: start can be invoked only while the call status is INACTIVE or
\* FINISHED and stop only while it is ACTIVE, and at most one open-session
\* request (vapi.start) is pending per controller instance: while one is
\* pending, no second one can be made, also after a call-end event that
\* arrived in the meantime.
C22_OneOpenRequest ==
  /\ (ENABLED handleCall) => callStatus \in {"INACTIVE", "FINISHED"}
  /\ (ENABLED handleDisconnect) => callStatus = "ACTIVE"
  /\ startPending <= 1
  /\ startPending >= 1 => ~StartButton

\* the step in which handleGenerateFeedback finishes for invocation i
Finishes(i) == calls[i].status # "done" /\ calls'[i].status = "done"

\* C23: a navigation to the feedback view is made only by a
\* handleGenerateFeedback whose createFeedback returned success with a
\* feedbackId, and then a feedback record with that id, the controller's
\* interviewId and its userId is in the store; when createFeedback returned
\* success=false or no feedbackId, or was rejected, the navigation goes home.
C23_FeedbackBeforeView ==
  [][ /\ \A i \in DOMAIN calls :
           Finishes(i) =>
             /\ navs' = Append(navs, navs'[Len(navs')])
             /\ navs'[Len(navs')] = FeedbackRoute =>
                  /\ calls[i].status = "returned"
                  /\ calls[i].success
                  /\ \E k \in DOMAIN feedback :
                       /\ feedback[k].id = calls[i].feedbackId
                       /\ feedback[k].interviewId = interviewId
                       /\ feedback[k].userId = userId
             /\ (\/ FeedbackRejected(i)
                 \/ ~calls[i].success
                 \/ calls[i].feedbackId = 0) => navs'[Len(navs')] = HomeRoute
      /\ (navs' # navs /\ navs'[Len(navs')] = FeedbackRoute) =>
           \E i \in DOMAIN calls : Finishes(i) ]_vars

C23_Witness ==
  /\ navs # <<>>
  /\ navs[Len(navs)] = FeedbackRoute
  /\ \E i \in DOMAIN calls : calls[i].status = "done"
  /\ \E k \in DOMAIN feedback :
       feedback[k].interviewId = interviewId /\ feedback[k].userId = userId

Done == {i \in DOMAIN calls : calls[i].status = "done"}

\* C24: in interview mode, when every createFeedback request returns or is
\* rejected, each entry into FINISHED is followed by a navigation: every
\* handleGenerateFeedback started eventually finishes and has then pushed one
\* route (the feedback view or home). A navigation is made only by a
\* handleGenerateFeedback that got its answer: while a request has not
\* returned, nothing navigates for it.
C24_EventuallyNavigates ==
  /\ \A i \in 1..MaxEffects :
       (type = "interview" /\ i \in DOMAIN calls) ~> (i \in Done)
  /\ (type = "interview" /\ callStatus = "FINISHED") ~> (navs # <<>>)
  /\ [](type = "interview" =>
          /\ Len(navs) = Cardinality(Done)
          /\ finishedCount >= 1 => calls # <<>>
          /\ \A k \in DOMAIN navs : navs[k] \in {FeedbackRoute, HomeRoute})
  /\ [][ (type = "interview" /\ navs' # navs) =>
           \E i \in DOMAIN calls : Finishes(i) ]_vars

C24_Witness ==
  /\ type = "interview"
  /\ callStatus = "FINISHED"
  /\ Done # {}
  /\ Len(navs) = Cardinality(Done)
  /\ \E i \in DOMAIN calls : calls[i].status = "pending"

\* the part of the last submitted address after its single '@' is one of the
\* valid domains
AllowedDomain ==
  LET parts == split(form.pieces, "@") IN
  /\ Len(parts) = 2
  /\ \E i \in DOMAIN validDomains : parts[2] = validDomains[i]

\* C25: the sign-up and the sign-in form call onSubmit (and so reach an
\* account operation) only for an address whose part after the single '@' is
\* one of gmail.com, outlook.com, hotmail.com, yahoo.com; every account of
\* the identity provider made through the form has such an address.
C25_OnlyAllowedDomains ==
  /\ form.ran => AllowedDomain
  /\ form.pc # "idle" => AllowedDomain

\* the error toasts of the form
ErrorToasts ==
  {friendlyMessage(f) : f \in {"name", "email", "password", "confirmPassword"}}
  \cup {"Passwords do not match", "There was an error", "Email already in Use",
        "Invalid email or password", "Sign in Failed",
        AlreadyExists.message, Failed.message}

\* the step that is a sign-up submission with password # confirmPassword
MismatchedSubmit ==
  /\ submits' = submits + 1
  /\ form'.formType = "sign-up"
  /\ form'.mismatch

\* C26: a sign-up submission whose password differs from confirmPassword
\* creates no identity-provider account, writes no users document, calls no
\* signUp, sets no cookie and navigates nowhere; it shows an error message
\* and the form is ready for the next submission.
C26_MismatchOnlyToasts ==
  [][ MismatchedSubmit =>
        /\ accounts' = accounts
        /\ users' = users
        /\ signUps' = signUps
        /\ session' = session
        /\ navs' = navs
        /\ form'.pc = "idle"
        /\ toast' # {} /\ toast' \subseteq ErrorToasts
        /\ form'.ran => toast' = {"Passwords do not match"} ]_vars

C26_Witness ==
  /\ form.formType = "sign-up"
  /\ form.mismatch
  /\ form.ran
  /\ form.pc = "idle"
  /\ toast = {"Passwords do not match"}
  /\ \A uid \in UserIds : accounts[uid] = NoEmail /\ ~users[uid].exists
  /\ navs = <<>>

\* C27: when the sign-in flow reports success (the 'Logged In successfully!'
\* toast and the navigation to '/'), signIn has set the session cookie for
\* this submission; when signIn did not set the cookie, the step that ends
\* the submission shows an error and does not navigate.
C27_SuccessMeansCookie ==
  [][ /\ (toast' = {"Logged In successfully!"} /\ navs' # navs) =>
           form.cookieSet /\ session' = form.uid
      /\ (form.pc = "signInReturned" /\ ~form.cookieSet /\ form'.pc = "idle") =>
           /\ navs' = navs
           /\ toast' # {} /\ toast' \subseteq ErrorToasts ]_vars

\* C28: the transcript handed to createFeedback holds only final utterances
\* received during the call that ended: it is an initial part of the finals
\* delivered since the last start, so after a second start from FINISHED no
\* utterance of the earlier call is in it.
C28_OnlyThisCall ==
  [][ Len(calls') > Len(calls) =>
        IsPrefix(calls'[Len(calls')].transcript, callFinals') ]_vars

\* C29: after a sign-up attempt has ended, successfully or not, every
\* identity-provider account has its users document (the document
\* getCurrentUser looks up by the account's uid).
C29_AccountHasDocument ==
  form.pc = "idle" =>
    \A uid \in UserIds : accounts[uid] # NoEmail => users[uid].exists

\* some voice event can act on the controller
SomeEvent ==
  \/ ENABLED CallStartEvent
  \/ ENABLED CallEndEvent
  \/ ENABLED (\E m \in Message : MessageEvent(m))
  \/ ENABLED SpeechStartEvent
  \/ ENABLED SpeechEndEvent
  \/ ENABLED (\E msg \in ErrorMessages : ErrorEvent(msg))

\* C30: while a controller is mounted the shared voice client holds its six
\* listeners and no other; after an unmount, whatever the number of
\* mount/unmount cycles before, it holds no listener at all, no voice event
\* acts on the controller, and until the next mount the state cells, the
\* createFeedback invocations and the navigations stay as they are.
C30_ListenersRemoved ==
  /\ [](/\ mounted => listeners = {<<instance, e>> : e \in VapiEvents}
        /\ ~mounted => listeners = {} /\ ~SomeEvent)
  /\ [][ (~mounted /\ ~mounted') =>
           UNCHANGED <<callStatus, isSpeaking, messages, calls, navs>> ]_vars

C30_Witness ==
  /\ ~mounted
  /\ instance = 2
  /\ listeners = {}
  /\ startPending = 1
  /\ callStatus = "FINISHED"
  /\ messages # <<>>
  /\ calls # <<>>

====
